---- MODULE Spec2Model ----
(***************************************************************************)
(* Model of entwine/types/vector-point-table.hpp:                          *)
(*   MemBlock          the bump-pointer block arena                        *)
(*   BlockPointTable   the write adapter over two arenas                   *)
(*   VectorPointTable  the streaming table and its skip-aware Iterator     *)
(***************************************************************************)
EXTENDS Integers, Sequences, FiniteSets

VARIABLES
    mem,        \* the two MemBlock arenas, "a" and "b"
    issued,     \* per arena: the addresses next() returned since construction or clear()
    cleared,    \* per arena: whether clear() has been called on it
    bpt,        \* the BlockPointTable built from the two arenas
    added,      \* the indices addPoint() has returned since the table was built
    alive,      \* whether the VectorPointTable has been constructed
    m_pointSize, m_data, m_size, m_skips, m_f,   \* its members
    ret,        \* the last VectorPointTable operation and its outcome
    trace,      \* the operations of a recorded scenario, in order
    marked,     \* indices on which setSkip() has ever succeeded
    kept,       \* those of them that have stayed inside m_skips ever since
    it,         \* the Iterator of the traversal in progress: loop position and m_index
    yielded,    \* the indices the traversal has dereferenced, in order
    clean,      \* no size or skip change since the traversal's begin()
    adopted,    \* the buffer the table was constructed from, and whether it still holds it
    acquired    \* the buffer the last operation handed out, if it was acquire()

arenaVars == <<mem, issued, cleared, bpt, added>>
members == <<m_pointSize, m_data, m_size, m_skips, m_f>>
iterVars == <<it, yielded, clean>>
streamVars == <<alive, m_pointSize, m_data, m_size, m_skips, m_f, ret, trace, marked,
                kept, it, yielded, clean, adopted, acquired>>
vars == <<mem, issued, cleared, bpt, added, alive, m_pointSize, m_data, m_size, m_skips, m_f, ret,
          trace, marked, kept, it, yielded, clean, adopted, acquired>>

(***************************************************************************)
(* Bounds of the model.                                                    *)
(***************************************************************************)
MaxNext == 3        \* next() calls per arena between two clear()s
MaxPerBlock == 2    \* largest pointsPerBlock an arena is constructed with
MaxAdd == 3         \* addPoint() calls on one BlockPointTable
MaxPoints == 3      \* largest point count given to the VectorPointTable

PointSizes == {1, 2}
Arenas == {"a", "b"}

(***************************************************************************)
(* Addresses.  A char* is the block it points into and a byte offset in    *)
(* it; every Block is its own heap buffer, named by a block id.            *)
(***************************************************************************)
nullptr == [blk |-> 0, off |-> 0]

\* The heap buffers an arena's Blocks can be given: each arena allocates from
\* a region of its own, so buffers of different arenas never coincide.
BlockIds(m) ==
    IF m = "a" THEN 1 .. MaxNext ELSE (MaxNext + 1) .. (2 * MaxNext)

\* The buffers the arena s currently owns.
LiveIds(s) == { s.m_blocks[j].id : j \in 1 .. Len(s.m_blocks) }

\* A heap allocation returns storage that overlaps no live buffer; the
\* allocator modelled is first-fit, so storage freed by clear() is reused.
Alloc(m) ==
    LET free == BlockIds(m) \ LiveIds(mem[m])
    IN  { id \in free : \A other \in free : id <= other }

PtrAdd(p, n) == [blk |-> p.blk, off |-> p.off + n]

(***************************************************************************)
(* MemBlock                                                                *)
(***************************************************************************)
\* MemBlock::MemBlock(pointSize, pointsPerBlock)
MemBlock(pointSize, pointsPerBlock) ==
    [ m_pointSize      |-> pointSize,
      m_pointsPerBlock |-> pointsPerBlock,
      m_bytesPerBlock  |-> pointsPerBlock * pointSize,
      m_blocks         |-> << >>,
      m_pos            |-> nullptr,
      m_end            |-> nullptr,
      m_refs           |-> << >> ]

\* WithBlock with the new Block given m_pointsPerBlock bytes, not
\* m_bytesPerBlock.
WithBlockUnsized(s, id) ==
    IF s.m_pos = s.m_end
    THEN [s EXCEPT !.m_blocks = Append(@, [id |-> id, len |-> s.m_pointsPerBlock]),
                   !.m_pos    = [blk |-> id, off |-> 0],
                   !.m_end    = [blk |-> id, off |-> s.m_bytesPerBlock]]
    ELSE s

\* The arena after "if (m_pos == m_end) { emplace_back; m_pos = ...; m_end = ... }"
\* when the new Block's storage is the buffer id.
WithBlock(s, id) ==
    IF s.m_pos = s.m_end
    THEN [s EXCEPT !.m_blocks = Append(@, [id |-> id, len |-> s.m_bytesPerBlock]),
                   !.m_pos    = [blk |-> id, off |-> 0],
                   !.m_end    = [blk |-> id, off |-> s.m_bytesPerBlock]]
    ELSE s

\* Bump with the cursor advanced by one byte instead of one point.
BumpOneByte(s) ==
    [s EXCEPT !.m_refs = Append(@, s.m_pos),
              !.m_pos  = PtrAdd(s.m_pos, 1)]

\* The rest of next(): record m_pos in m_refs and bump it by one point.
Bump(s) ==
    [s EXCEPT !.m_refs = Append(@, s.m_pos),
              !.m_pos  = PtrAdd(s.m_pos, s.m_pointSize)]

\* char* MemBlock::next(): the arena afterwards and the address returned.
NextOf(s, id) ==
    LET s1 == WithBlock(s, id)
    IN  [arena |-> Bump(s1), result |-> s1.m_pos]

\* next() on an arena whose refs the adapter table reads in place, as if the
\* table held references to the arenas' refs instead of copies.
nextSeenByTable(m) ==
    /\ Len(mem[m].m_refs) < MaxNext
    /\ \E id \in Alloc(m) :
          LET r == NextOf(mem[m], id)
          IN  /\ mem' = [mem EXCEPT ![m] = r.arena]
              /\ issued' = [issued EXCEPT ![m] = Append(@, r.result)]
    /\ bpt' = IF bpt.built
              THEN [bpt EXCEPT !.m_refs = mem'["a"].m_refs \o mem'["b"].m_refs]
              ELSE bpt
    /\ UNCHANGED <<cleared, added, streamVars>>

next(m) ==
    /\ Len(mem[m].m_refs) < MaxNext
    /\ \E id \in Alloc(m) :
          LET r == NextOf(mem[m], id)
          IN  /\ mem' = [mem EXCEPT ![m] = r.arena]
              /\ issued' = [issued EXCEPT ![m] = Append(@, r.result)]
    /\ UNCHANGED <<cleared, bpt, added, streamVars>>

\* uint64_t MemBlock::size() const
ArenaSize(s) == Len(s.m_refs)

\* clear without "m_pos = nullptr; m_end = nullptr".
ClearKeepsCursor(s) ==
    [s EXCEPT !.m_blocks = << >>,
              !.m_refs   = << >>]

\* void MemBlock::clear()
ClearOf(s) ==
    [s EXCEPT !.m_blocks = << >>,
              !.m_pos    = nullptr,
              !.m_end    = nullptr,
              !.m_refs   = << >>]

clear(m) ==
    /\ mem' = [mem EXCEPT ![m] = ClearOf(mem[m])]
    /\ issued' = [issued EXCEPT ![m] = << >>]
    /\ cleared' = [cleared EXCEPT ![m] = TRUE]
    /\ UNCHANGED <<bpt, added, streamVars>>

(***************************************************************************)
(* BlockPointTable                                                         *)
(***************************************************************************)
\* BlockPointTableOf with the two inserts in the other order.
BlockPointTableSwapped(a, b) ==
    [ built   |-> TRUE,
      m_refs  |-> b.m_refs \o a.m_refs,
      m_index |-> 0 ]

\* BlockPointTable::BlockPointTable(schema, a, b): m_refs is a's refs then b's.
BlockPointTableOf(a, b) ==
    [ built   |-> TRUE,
      m_refs  |-> a.m_refs \o b.m_refs,
      m_index |-> 0 ]

NoTable == [built |-> FALSE, m_refs |-> << >>, m_index |-> 0]

BlockPointTable ==
    /\ bpt' = BlockPointTableOf(mem["a"], mem["b"])
    /\ added' = << >>
    /\ UNCHANGED <<mem, issued, cleared, streamVars>>

\* uint64_t BlockPointTable::size() const
BptSize == Len(bpt.m_refs)

\* char* BlockPointTable::getPoint(index), for an index inside m_refs
\* (PointId counts from 0, a TLA+ sequence from 1).
BptGetPoint(index) == bpt.m_refs[index + 1]

\* addPoint written "return ++m_index".
addPointPreIncrement ==
    /\ bpt.built
    /\ bpt.m_index < MaxAdd
    /\ bpt' = [bpt EXCEPT !.m_index = @ + 1]
    /\ added' = Append(added, bpt.m_index + 1)
    /\ UNCHANGED <<mem, issued, cleared, streamVars>>

\* PointId BlockPointTable::addPoint(): returns m_index, then increments it.
addPoint ==
    /\ bpt.built
    /\ bpt.m_index < MaxAdd
    /\ bpt' = [bpt EXCEPT !.m_index = @ + 1]
    /\ added' = Append(added, bpt.m_index)
    /\ UNCHANGED <<mem, issued, cleared, streamVars>>

(***************************************************************************)
(* VectorPointTable                                                        *)
(***************************************************************************)
\* std::vector<T>::resize(n, fill)
Resized(v, n, fill) == [i \in 1 .. n |-> IF i <= Len(v) THEN v[i] ELSE fill]

\* std::vector<T>(n, fill)
Filled(n, fill) == [i \in 1 .. n |-> fill]

\* The buffers a caller hands in: every length up to one byte past MaxPoints
\* points, the byte at position i being 1 or 2, never 0, so that adopted
\* content differs from zero fill and from one position to the next.
Pattern(i) == 1 + (i % 2)
Buffers(ps) == { [i \in 1 .. n |-> Pattern(i)] : n \in 0 .. (MaxPoints * ps + 1) }

Indices == 0 .. (MaxPoints + 1)
Counts == 0 .. MaxPoints

NoIterator == [pc |-> "none", m_index |-> 0]

\* No buffer adopted, or the adopted buffer since replaced by resize or assign.
NotAdopted == [buffer |-> << >>, held |-> FALSE]

NotConstructed ==
    /\ alive = FALSE
    /\ m_pointSize = 1
    /\ m_data = << >>
    /\ m_size = 0
    /\ m_skips = << >>
    /\ m_f = "default"
    /\ trace = << >>
    /\ ret = [op |-> "none", result |-> "ok"]
    /\ marked = {}
    /\ kept = {}
    /\ it = NoIterator
    /\ yielded = << >>
    /\ clean = TRUE
    /\ adopted = NotAdopted
    /\ acquired = << >>

\* What the caller sees of an operation: ret is its outcome, acquired is the
\* buffer it got when the operation was acquire(), and a scenario being
\* recorded gets the call appended.
Return(op, arg, result) ==
    /\ ret' = [op |-> op, result |-> result]
    /\ acquired' = IF op = "acquire" THEN <<arg>> ELSE << >>
    /\ trace' = IF trace = << >> THEN trace
                ELSE Append(trace, [op |-> op, arg |-> arg, result |-> result])

\* A change of m_size or m_skips under a traversal in progress: what the
\* traversal yields from then on is no longer followed.
Touch ==
    IF it.pc = "none"
    THEN UNCHANGED iterVars
    ELSE it' = it /\ yielded' = << >> /\ clean' = FALSE

\* VectorPointTable::VectorPointTable(schema, np)
VectorPointTableNp(ps, np) ==
    /\ ~alive
    /\ alive' = TRUE
    /\ m_pointSize' = ps
    /\ m_data' = Filled(np * ps, 0)
    /\ m_size' = np
    /\ m_skips' = Filled(np, FALSE)
    /\ Return("VectorPointTable", np, "ok")
    /\ UNCHANGED <<m_f, marked, kept, adopted, arenaVars>>
    /\ UNCHANGED iterVars

\* VectorPointTable::VectorPointTable(schema, data): the members are
\* initialised, then a length that is no multiple of the point size throws,
\* and no table comes to exist.
VectorPointTableData(ps, data) ==
    /\ ~alive
    /\ IF Len(data) % ps # 0
       THEN /\ Return("VectorPointTable", Len(data), "runtime_error")
            /\ UNCHANGED <<alive, members, adopted>>
       ELSE /\ alive' = TRUE
            /\ m_pointSize' = ps
            /\ m_data' = data
            /\ m_size' = Len(data) \div ps
            /\ m_skips' = Filled(Len(data) \div ps, FALSE)
            /\ Return("VectorPointTable", Len(data), "ok")
            /\ adopted' = [buffer |-> data, held |-> TRUE]
            /\ UNCHANGED m_f
    /\ UNCHANGED <<marked, kept, arenaVars>>
    /\ UNCHANGED iterVars

\* std::size_t VectorPointTable::size() const
size == m_size

\* point_count_t VectorPointTable::capacity() const
capacity == Len(m_data) \div m_pointSize

\* The marks that stay inside a skip mask of n entries.
Inside(n) == { i \in kept : i < n }

\* resize with the byte count taken for the point count: m_data.resize(np, 0).
resizeCountOnly(np) ==
    /\ alive
    /\ m_data' = Resized(m_data, np, 0)
    /\ m_size' = np
    /\ m_skips' = Resized(m_skips, np, FALSE)
    /\ Return("resize", np, "ok")
    /\ kept' = Inside(np)
    /\ adopted' = NotAdopted
    /\ UNCHANGED <<alive, m_pointSize, m_f, marked, arenaVars>>
    /\ Touch

\* resize without "m_size = np".
resizeStaleSize(np) ==
    /\ alive
    /\ m_data' = Resized(m_data, np * m_pointSize, 0)
    /\ m_size' = m_size
    /\ m_skips' = Resized(m_skips, m_size, FALSE)
    /\ Return("resize", np, "ok")
    /\ kept' = Inside(m_size)
    /\ adopted' = NotAdopted
    /\ UNCHANGED <<alive, m_pointSize, m_f, marked, arenaVars>>
    /\ Touch

\* resize with the mask rebuilt: m_skips.assign(m_size, false).
resizeFreshMask(np) ==
    /\ alive
    /\ m_data' = Resized(m_data, np * m_pointSize, 0)
    /\ m_size' = np
    /\ m_skips' = Filled(np, FALSE)
    /\ Return("resize", np, "ok")
    /\ kept' = Inside(np)
    /\ adopted' = NotAdopted
    /\ UNCHANGED <<alive, m_pointSize, m_f, marked, arenaVars>>
    /\ Touch

\* resize without "m_skips.resize(m_size, false)".
resizeNoMask(np) ==
    /\ alive
    /\ m_data' = Resized(m_data, np * m_pointSize, 0)
    /\ m_size' = np
    /\ m_skips' = m_skips
    /\ Return("resize", np, "ok")
    /\ kept' = kept
    /\ adopted' = NotAdopted
    /\ UNCHANGED <<alive, m_pointSize, m_f, marked, arenaVars>>
    /\ Touch

\* void VectorPointTable::resize(np)
resize(np) ==
    /\ alive
    /\ m_data' = Resized(m_data, np * m_pointSize, 0)
    /\ m_size' = np
    /\ m_skips' = Resized(m_skips, np, FALSE)
    /\ Return("resize", np, "ok")
    /\ kept' = Inside(np)
    /\ adopted' = NotAdopted
    /\ UNCHANGED <<alive, m_pointSize, m_f, marked, arenaVars>>
    /\ Touch

\* assign without "m_size = m_data.size() / m_pointSize".
assignStaleSize(data) ==
    /\ alive
    /\ m_data' = data
    /\ m_size' = m_size
    /\ m_skips' = Resized(m_skips, m_size, FALSE)
    /\ Return("assign", Len(data), "ok")
    /\ kept' = Inside(m_size)
    /\ adopted' = NotAdopted
    /\ UNCHANGED <<alive, m_pointSize, m_f, marked, arenaVars>>
    /\ Touch

\* assign with the mask rebuilt: m_skips.assign(m_size, false).
assignFreshMask(data) ==
    /\ alive
    /\ m_data' = data
    /\ m_size' = Len(data) \div m_pointSize
    /\ m_skips' = Filled(Len(data) \div m_pointSize, FALSE)
    /\ Return("assign", Len(data), "ok")
    /\ kept' = {}
    /\ adopted' = NotAdopted
    /\ UNCHANGED <<alive, m_pointSize, m_f, marked, arenaVars>>
    /\ Touch

\* void VectorPointTable::assign(data): no check of the length.
assign(data) ==
    /\ alive
    /\ m_data' = data
    /\ m_size' = Len(data) \div m_pointSize
    /\ m_skips' = Resized(m_skips, Len(data) \div m_pointSize, FALSE)
    /\ Return("assign", Len(data), "ok")
    /\ kept' = Inside(Len(data) \div m_pointSize)
    /\ adopted' = NotAdopted
    /\ UNCHANGED <<alive, m_pointSize, m_f, marked, arenaVars>>
    /\ Touch

\* at with the bound test written "index > size()".
atInclusive(index) ==
    /\ alive
    /\ Return("at", index, IF index > size THEN "out_of_range" ELSE "ok")
    /\ UNCHANGED <<alive, members, marked, kept, adopted, arenaVars>>
    /\ UNCHANGED iterVars

\* PointRef VectorPointTable::at(index)
at(index) ==
    /\ alive
    /\ Return("at", index, IF index >= size THEN "out_of_range" ELSE "ok")
    /\ UNCHANGED <<alive, members, marked, kept, adopted, arenaVars>>
    /\ UNCHANGED iterVars

\* char* VectorPointTable::getPoint(index): the byte offset into m_data.
getPoint(index) == index * m_pointSize

\* acquire with the buffer emptied before it is handed out.
acquireEmptied ==
    /\ alive
    /\ m_data' = << >>
    /\ Return("acquire", << >>, "ok")
    /\ adopted' = [adopted EXCEPT !.held = FALSE]
    /\ UNCHANGED <<alive, m_pointSize, m_size, m_skips, m_f, marked, kept, arenaVars>>
    /\ UNCHANGED iterVars

\* std::vector<char>&& VectorPointTable::acquire(): hands out an rvalue
\* reference to m_data.  The caller either moves from it, which leaves m_data
\* empty, or only reads through it, which leaves m_data as it is.
acquire ==
    /\ alive
    /\ \/ m_data' = << >>
       \/ m_data' = m_data
    /\ Return("acquire", m_data, "ok")
    /\ adopted' = IF m_data' = m_data THEN adopted ELSE [adopted EXCEPT !.held = FALSE]
    /\ UNCHANGED <<alive, m_pointSize, m_size, m_skips, m_f, marked, kept, arenaVars>>
    /\ UNCHANGED iterVars

\* void VectorPointTable::setProcess(f)
setProcess ==
    /\ alive
    /\ m_f' = "set"
    /\ Return("setProcess", 0, "ok")
    /\ UNCHANGED <<alive, m_pointSize, m_data, m_size, m_skips, marked, kept, adopted, arenaVars>>
    /\ UNCHANGED iterVars

\* void VectorPointTable::reset(): runs m_f, which is the caller's code; the
\* table itself changes nothing.
reset ==
    /\ alive
    /\ Return("reset", 0, m_f)
    /\ UNCHANGED <<alive, members, marked, kept, adopted, arenaVars>>
    /\ UNCHANGED iterVars

\* bool VectorPointTable::skip(n) const: m_skips.at(n)
SkipOf(n) ==
    IF n >= Len(m_skips) THEN "out_of_range"
    ELSE IF m_skips[n + 1] THEN "true" ELSE "false"

skip(n) ==
    /\ alive
    /\ Return("skip", n, SkipOf(n))
    /\ UNCHANGED <<alive, members, marked, kept, adopted, arenaVars>>
    /\ UNCHANGED iterVars

\* setNumPoints carried out as a resize: buffer and mask follow the size.
setNumPointsResizing(s) ==
    /\ alive
    /\ m_data' = Resized(m_data, s * m_pointSize, 0)
    /\ m_size' = s
    /\ m_skips' = Resized(m_skips, s, FALSE)
    /\ Return("setNumPoints", s, "ok")
    /\ UNCHANGED <<alive, m_pointSize, m_f, marked, kept, adopted, arenaVars>>
    /\ Touch

\* void VectorPointTable::setNumPoints(s)
setNumPoints(s) ==
    /\ alive
    /\ m_size' = s
    /\ Return("setNumPoints", s, "ok")
    /\ UNCHANGED <<alive, m_pointSize, m_data, m_skips, m_f, marked, kept, adopted, arenaVars>>
    /\ Touch

\* void VectorPointTable::setSkip(n): m_skips.at(n) = true
setSkip(n) ==
    /\ alive
    /\ IF n >= Len(m_skips)
       THEN /\ Return("setSkip", n, "out_of_range")
            /\ UNCHANGED <<m_skips, marked, kept, iterVars>>
       ELSE /\ m_skips' = [m_skips EXCEPT ![n + 1] = TRUE]
            /\ Return("setSkip", n, "ok")
            /\ marked' = marked \cup {n}
            /\ kept' = kept \cup {n}
            /\ Touch
    /\ UNCHANGED <<alive, m_pointSize, m_data, m_size, m_f, adopted, arenaVars>>

(***************************************************************************)
(* VectorPointTable::Iterator                                              *)
(***************************************************************************)
\* The loop left out: the iterator stays on the index it was given.
SettleNoSkip(i) == [m_index |-> i, threw |-> FALSE]

\* The loop shared by the constructor and operator++:
\*   while (m_index < m_table.size() && m_table.skip(m_index)) ++m_index;
\* started at index i.  skip() throws when i is outside m_skips, and m_index
\* is then left at that index.
RECURSIVE Settle(_)
Settle(i) ==
    IF i < size
    THEN IF SkipOf(i) = "out_of_range" THEN [m_index |-> i, threw |-> TRUE]
         ELSE IF SkipOf(i) = "true" THEN Settle(i + 1)
         ELSE [m_index |-> i, threw |-> FALSE]
    ELSE [m_index |-> i, threw |-> FALSE]

\* Iterator::Iterator(table, index)
Iterator(index) == Settle(index)

\* operator++ without the skip test: "++m_index; return *this".
PreIncrementNoSkip(index) == [m_index |-> index + 1, threw |-> FALSE]

\* Iterator& Iterator::operator++(): do ++m_index while (in range and skipped)
PreIncrement(index) == Settle(index + 1)

\* Iterator VectorPointTable::end(): Iterator(*this, size())
end == Iterator(size)

\* Iterator VectorPointTable::begin(): Iterator(*this).  An exception leaves
\* the caller without an iterator.
begin ==
    /\ alive
    /\ LET b == Iterator(0)
       IN  IF b.threw
           THEN /\ it' = NoIterator
                /\ Return("begin", 0, "out_of_range")
           ELSE /\ it' = [pc |-> "test", m_index |-> b.m_index]
                /\ Return("begin", 0, "ok")
    /\ yielded' = << >>
    /\ clean' = TRUE
    /\ UNCHANGED <<alive, members, marked, kept, adopted, arenaVars>>

\* bool Iterator::operator!=(rhs): m_index != rhs.m_index
NotEqual(lhs, rhs) == lhs.m_index # rhs.m_index

\* The head of "for (it = begin(); it != end(); ++it) { use *it }": either the
\* body is entered and dereferences it, or the loop is over.
loopTest ==
    /\ it.pc = "test"
    /\ IF NotEqual(it, end)
       THEN /\ it' = [it EXCEPT !.pc = "body"]
            /\ yielded' = IF clean THEN Append(yielded, it.m_index) ELSE yielded
            /\ Return("operator*", it.m_index, "ok")
       ELSE /\ it' = [it EXCEPT !.pc = "done"]
            /\ yielded' = yielded
            /\ Return("operator!=", it.m_index, "false")
    /\ UNCHANGED <<alive, members, marked, kept, clean, adopted, arenaVars>>

\* ++it at the end of the loop body.  An exception from skip() ends the loop.
preIncrement ==
    /\ it.pc = "body"
    /\ it.m_index <= MaxPoints
    /\ LET n == PreIncrement(it.m_index)
       IN  IF n.threw
           THEN /\ it' = NoIterator
                /\ Return("operator++", it.m_index, "out_of_range")
           ELSE /\ it' = [pc |-> "test", m_index |-> n.m_index]
                /\ Return("operator++", it.m_index, "ok")
    /\ UNCHANGED <<alive, members, marked, kept, yielded, clean, adopted, arenaVars>>

\* Iterator Iterator::operator++(int):
\*   Iterator other(*this); ++other; return other;
\* The copy is advanced and returned; the iterator itself keeps its m_index.
PostIncrement(index) ==
    [m_index |-> index, other |-> PreIncrement(index).m_index,
     threw |-> PreIncrement(index).threw]

\* it++ at the end of the loop body, the returned copy dropped.  The loop may
\* then go round for ever: the model follows it for MaxPoints + 1 rounds.
postIncrement ==
    /\ it.pc = "body"
    /\ it.m_index <= MaxPoints
    /\ Len(yielded) <= MaxPoints
    /\ LET n == PostIncrement(it.m_index)
       IN  IF n.threw
           THEN /\ it' = NoIterator
                /\ Return("operator++(int)", it.m_index, "out_of_range")
           ELSE /\ it' = [pc |-> "test", m_index |-> n.m_index]
                /\ Return("operator++(int)", it.m_index, "ok")
    /\ UNCHANGED <<alive, members, marked, kept, yielded, clean, adopted, arenaVars>>

(***************************************************************************)
(* The arenas and the adapter table.                                       *)
(***************************************************************************)
InitArena ==
    /\ mem \in [Arenas -> { MemBlock(ps, k) : ps \in PointSizes, k \in 1 .. MaxPerBlock }]
    /\ issued = [m \in Arenas |-> << >>]
    /\ cleared = [m \in Arenas |-> FALSE]
    /\ bpt = NoTable
    /\ added = << >>
    /\ NotConstructed

NextArena ==
    \/ \E m \in Arenas : next(m)
    \/ \E m \in Arenas : clear(m)
    \/ BlockPointTable
    \/ addPoint

SpecArena == InitArena /\ [][NextArena]_vars

(***************************************************************************)
(* The streaming table.                                                    *)
(***************************************************************************)
IdleArenas ==
    /\ mem = [m \in Arenas |-> MemBlock(1, 1)]
    /\ issued = [m \in Arenas |-> << >>]
    /\ cleared = [m \in Arenas |-> FALSE]
    /\ bpt = NoTable
    /\ added = << >>

InitTable == IdleArenas /\ NotConstructed

NextTable ==
    \/ \E ps \in PointSizes, np \in Counts : VectorPointTableNp(ps, np)
    \/ \E ps \in PointSizes : \E data \in Buffers(ps) : VectorPointTableData(ps, data)
    \/ \E np \in Counts : resize(np)
    \/ \E data \in Buffers(m_pointSize) : assign(data)
    \/ \E index \in Indices : at(index)
    \/ acquire
    \/ setProcess
    \/ reset
    \/ \E n \in Indices : skip(n)
    \/ \E s \in Counts : setNumPoints(s)
    \/ \E n \in Indices : setSkip(n)

Spec == InitTable /\ [][NextTable]_vars

(***************************************************************************)
(* Traversals of the streaming table.  An Iterator reads m_size and        *)
(* m_skips only, so the operations here are those that set them.           *)
(***************************************************************************)
NextIter ==
    \/ \E ps \in PointSizes, np \in Counts : VectorPointTableNp(ps, np)
    \/ \E np \in Counts : resize(np)
    \/ \E s \in Counts : setNumPoints(s)
    \/ \E n \in Indices : setSkip(n)
    \/ begin
    \/ loopTest
    \/ preIncrement

SpecIter == InitTable /\ [][NextIter]_vars

(***************************************************************************)
(* The loop "for (it = begin(); it != end(); ++it)" run to its end: the    *)
(* table is left alone while the loop is running, and the loop, once       *)
(* begun, goes on (the code is single-threaded and never waits).           *)
(***************************************************************************)
Idle == it.pc \in {"none", "done"}

NextLoop ==
    \/ \E ps \in PointSizes, np \in Counts : VectorPointTableNp(ps, np)
    \/ \E np \in Counts : Idle /\ resize(np)
    \/ \E s \in Counts : Idle /\ setNumPoints(s)
    \/ \E n \in Indices : Idle /\ setSkip(n)
    \/ Idle /\ begin
    \/ loopTest
    \/ preIncrement

SpecLoop ==
    InitTable /\ [][NextLoop]_vars /\ WF_vars(loopTest) /\ WF_vars(preIncrement)

(***************************************************************************)
(* The same loop written with it++.                                        *)
(***************************************************************************)
NextPostfix ==
    \/ \E ps \in PointSizes, np \in Counts : VectorPointTableNp(ps, np)
    \/ \E np \in Counts : Idle /\ resize(np)
    \/ \E n \in Indices : Idle /\ setSkip(n)
    \/ Idle /\ begin
    \/ loopTest
    \/ postIncrement

SpecPostfix == InitTable /\ [][NextPostfix]_vars

(***************************************************************************)
(* The example scenario of the specification: an 8-byte point, a table     *)
(* constructed with 4 points, and the calls that follow, recorded in trace.*)
(***************************************************************************)
MaxCalls == 3       \* calls recorded after the constructor

InitScenario ==
    /\ IdleArenas
    /\ alive = TRUE
    /\ m_pointSize = 8
    /\ m_data = Filled(4 * 8, 0)
    /\ m_size = 4
    /\ m_skips = Filled(4, FALSE)
    /\ m_f = "default"
    /\ ret = [op |-> "VectorPointTable", result |-> "ok"]
    /\ trace = << [op |-> "VectorPointTable", arg |-> 4, result |-> "ok"] >>
    /\ marked = {}
    /\ kept = {}
    /\ it = NoIterator
    /\ yielded = << >>
    /\ clean = TRUE
    /\ adopted = NotAdopted
    /\ acquired = << >>

Recording == Len(trace) <= MaxCalls

NextScenario ==
    \/ \E np \in Counts : Recording /\ resize(np)
    \/ \E index \in Indices : Recording /\ at(index)
    \/ \E s \in Counts : Recording /\ setNumPoints(s)
    \/ \E n \in Indices : Recording /\ setSkip(n)

SpecScenario == InitScenario /\ [][NextScenario]_vars

(***************************************************************************)
(* Properties of the arenas and the adapter table, under SpecArena.        *)
(***************************************************************************)
Distinct(seq) == \A i, j \in 1 .. Len(seq) : i # j => seq[i] # seq[j]
CeilDiv(n, k) == (n + k - 1) \div k
Min(x, y) == IF x <= y THEN x ELSE y

\* C1: after n next() calls with no clear() in between, size() is n, the n
\* returned addresses are pairwise distinct and the arena owns ceil(n/k) blocks.
C1_NextCounts ==
    \A m \in Arenas :
        LET n == Len(issued[m])
        IN  /\ ArenaSize(mem[m]) = n
            /\ Distinct(issued[m])
            /\ Len(mem[m].m_blocks) = CeilDiv(n, mem[m].m_pointsPerBlock)

\* An arena of two points per block that has issued three slots.
C1_Witness ==
    \E m \in Arenas :
        /\ mem[m].m_pointsPerBlock = 2
        /\ Len(issued[m]) = 3
        /\ Len(mem[m].m_blocks) = 2

\* C2: a BlockPointTable built from (a, b) has size() = a.size() + b.size(),
\* getPoint(i) is a.refs()[i] below a.size() and b.refs()[i - a.size()] from there on.
C2_Concatenation ==
    [][ BlockPointTable =>
          LET na == ArenaSize(mem["a"])
              nb == ArenaSize(mem["b"])
          IN  /\ BptSize' = na + nb
              /\ \A i \in 0 .. (na + nb - 1) :
                    BptGetPoint(i)' = IF i < na THEN mem["a"].m_refs[i + 1]
                                               ELSE mem["b"].m_refs[i - na + 1] ]_vars

\* A table built over two arenas that both hold slots.
C2_Witness ==
    /\ bpt.built
    /\ ArenaSize(mem["a"]) >= 2
    /\ ArenaSize(mem["b"]) >= 1
    /\ BptSize = ArenaSize(mem["a"]) + ArenaSize(mem["b"])
    /\ BptGetPoint(0) = mem["a"].m_refs[1]
    /\ BptGetPoint(BptSize - 1) = mem["b"].m_refs[ArenaSize(mem["b"])]

(***************************************************************************)
(* Properties of the streaming table, under Spec.                          *)
(***************************************************************************)
\* C3: adopting (constructor) or assigning a buffer whose length is no
\* multiple of pointSize fails with the invalid-buffer-length error, and a
\* failing assign leaves buffer, size and skip mask unchanged.
C3_BadLengthFails ==
    [][ /\ \A ps \in PointSizes : \A data \in Buffers(ps) :
              (VectorPointTableData(ps, data) /\ Len(data) % ps # 0)
                  => (ret'.result = "runtime_error" /\ ~alive')
        /\ \A data \in Buffers(m_pointSize) :
              (assign(data) /\ Len(data) % m_pointSize # 0)
                  => /\ ret'.result = "runtime_error"
                     /\ UNCHANGED <<m_data, m_size, m_skips>> ]_vars

\* C4: at(index) fails with out-of-range exactly when index >= size(), and a
\* failing at() leaves buffer, size and skip mask unchanged.
C4_AtBounds ==
    [][ (ret'.op = "at") =>
          \A index \in Indices :
              at(index) =>
                  /\ (ret'.result = "out_of_range") <=> (index >= size)
                  /\ (ret'.result = "out_of_range")
                        => UNCHANGED <<m_data, m_size, m_skips>> ]_vars

\* at() has just failed on a table of at least one point.
C4_Witness ==
    /\ ret = [op |-> "at", result |-> "out_of_range"]
    /\ size >= 1

\* C6: resize(np) on a table holding m points (m records in the buffer, m
\* mask entries) keeps the records and skip flags below min(m, np), zero-fills
\* the bytes and clears the flags it adds, truncates when np < m, and leaves
\* size() = capacity() = np.
C6_Resize ==
    [][ (ret'.op = "resize") =>
          LET m == Len(m_skips)
              ps == m_pointSize
              np == size'
          IN  (resize(np) /\ Len(m_data) = m * ps) =>
                  /\ size' = np
                  /\ capacity' = np
                  /\ Len(m_data') = np * ps
                  /\ Len(m_skips') = np
                  /\ \A j \in 1 .. (Min(m, np) * ps) : m_data'[j] = m_data[j]
                  /\ \A j \in 1 .. Min(m, np) : m_skips'[j] = m_skips[j]
                  /\ \A j \in (m * ps + 1) .. (np * ps) : m_data'[j] = 0
                  /\ \A j \in (m + 1) .. np : m_skips'[j] = FALSE ]_vars

\* A resize has grown a table that held adopted bytes and a skipped point.
C6_Witness ==
    /\ ret = [op |-> "resize", result |-> "ok"]
    /\ size >= 2
    /\ size = capacity
    /\ m_data[1] # 0
    /\ m_data[Len(m_data)] = 0
    /\ m_skips[1]
    /\ ~m_skips[size]

\* C8, as claimed: once setSkip(i) has succeeded, skip(i) returns true
\* whenever i is a valid index again, whatever was called in between.
C8_Original ==
    \A i \in marked : i < size => SkipOf(i) = "true"

\* C8, amended: a flag set by setSkip(i) stays set for as long as index i has
\* stayed inside the skip mask; only a resize or assign to fewer than i + 1
\* points drops it.
C8_KeptFlags ==
    \A i \in kept : SkipOf(i) = "true"

\* A shrinking resize has dropped one mark and kept another.
C8_Witness ==
    /\ ret = [op |-> "resize", result |-> "ok"]
    /\ kept # {}
    /\ marked # kept

\* The operations that set the point count of the table: ret names the
\* operation of every step.
Sizing == {"VectorPointTable", "resize", "assign"}

\* C9, as claimed: the skip mask is as long as the logical size().
C9_Original ==
    alive => Len(m_skips) = size

\* C9, amended: each constructor, resize and assign leaves the mask as long
\* as size(); every operation but setNumPoints keeps it so; setNumPoints
\* changes size() and leaves the mask as it is.
C9_MaskLength ==
    [][ /\ (alive' /\ ret'.op \in Sizing) => Len(m_skips') = size'
        /\ (Len(m_skips) = size /\ ret'.op # "setNumPoints") => Len(m_skips') = size'
        /\ (ret'.op = "setNumPoints") => m_skips' = m_skips ]_vars

\* setNumPoints has shrunk the size of a table under its skip mask.
C9_Witness ==
    /\ ret = [op |-> "setNumPoints", result |-> "ok"]
    /\ size < Len(m_skips)
    /\ kept # {}

\* Every index at() accepts addresses a slot inside m_data.
SlotsInside ==
    \A index \in Indices :
        index < size => getPoint(index) + m_pointSize <= Len(m_data)

\* C10, as claimed: size() <= capacity() in every state, so every index
\* at() accepts addresses a slot inside the buffer.
C10_Original ==
    alive => (size <= capacity /\ SlotsInside)

\* C10, amended: each constructor, resize and assign leaves size() <=
\* capacity(); every operation keeps it so except an acquire() whose buffer
\* the caller moves out and a setNumPoints(s) with s > capacity(); and
\* whenever size() <= capacity(), the slots at() accepts lie inside the buffer.
C10_SizeWithinCapacity ==
    [][ /\ (alive' /\ ret'.op \in Sizing) => size' <= capacity'
        /\ ( /\ size <= capacity
             /\ ~(ret'.op = "acquire" /\ m_data' # m_data)
             /\ ~(ret'.op = "setNumPoints" /\ size' > capacity) )
            => size' <= capacity'
        /\ (size' <= capacity') => SlotsInside' ]_vars

\* The buffer has been moved out of a table that still reports points.
C10_Witness ==
    /\ ret.op = "acquire"
    /\ size >= 1
    /\ capacity = 0

(***************************************************************************)
(* Properties of traversals, under SpecIter.                               *)
(***************************************************************************)
AllSkipped == \A i \in 0 .. (size - 1) : SkipOf(i) = "true"

\* C5: a traversal from begin() to end() never yields an index marked by
\* setSkip; and when every index below size() is skipped (or size() is 0),
\* begin() equals end() at once and nothing is yielded.
C5_SkippedNeverYielded ==
    /\ (it.pc # "none" /\ clean) =>
          \A j \in 1 .. Len(yielded) : yielded[j] \notin kept
    /\ (it.pc = "test" /\ clean /\ yielded = << >> /\ AllSkipped) =>
          ~NotEqual(it, end)
    /\ (it.pc = "done" /\ clean /\ AllSkipped) => yielded = << >>

\* A finished traversal of three points, the middle one skipped.
C5_Witness ==
    /\ it.pc = "done"
    /\ clean
    /\ kept = {1}
    /\ yielded = <<0, 2>>

(***************************************************************************)
(* The example scenario, under SpecScenario.                               *)
(***************************************************************************)
Call(op, arg) == [op |-> op, arg |-> arg, result |-> "ok"]

\* The table of 4 points after setSkip(1), resize(2) and one call of at().
AfterSkipAndResize ==
    /\ Len(trace) = 4
    /\ trace[1] = Call("VectorPointTable", 4)
    /\ trace[2] = Call("setSkip", 1)
    /\ trace[3] = Call("resize", 2)
    /\ trace[4].op = "at"

\* C7, as claimed: after setSkip(1) and resize(2), capacity() is 2 and at(1)
\* fails with out-of-range.
C7_Original ==
    (AfterSkipAndResize /\ trace[4].arg = 1) =>
        (capacity = 2 /\ trace[4].result = "out_of_range")

\* C7, amended: after setSkip(1) and resize(2), capacity() is 2, at(1)
\* succeeds (index 1 is still in the table and still skipped) and at(index)
\* fails with out-of-range from index 2 on.
C7_Scenario ==
    AfterSkipAndResize =>
        /\ capacity = 2
        /\ (trace[4].result = "out_of_range") <=> (trace[4].arg >= 2)
        /\ SkipOf(1) = "true"

\* The scenario has run and ended with at(1).
C7_Witness ==
    /\ AfterSkipAndResize
    /\ trace[4].arg = 1
    /\ trace[4].result = "ok"

(***************************************************************************)
(* Further properties of the streaming table, under Spec.                  *)
(***************************************************************************)
\* C11: skip(index) and setSkip(index) fail with out-of-range for every
\* index >= the logical size(), in every reachable state (also after
\* setNumPoints has shrunk the size), and a failing setSkip leaves the skip
\* mask unchanged.
C11_SkipBounds ==
    [][ (ret'.op \in {"skip", "setSkip"}) =>
          \A n \in Indices :
              /\ (skip(n) /\ n >= size) => ret'.result = "out_of_range"
              /\ (setSkip(n) /\ n >= size) => ret'.result = "out_of_range"
              /\ (setSkip(n) /\ ret'.result = "out_of_range") => m_skips' = m_skips ]_vars

\* C12: a table constructed by adopting a buffer of n * pointSize bytes hands
\* that buffer back from acquire(), same length and same bytes, when no
\* resize or assign came in between.
C12_RoundTrip ==
    [][ (ret'.op = "acquire" /\ adopted.held) =>
            /\ Len(acquired'[1]) = Len(adopted.buffer)
            /\ acquired' = <<adopted.buffer>> ]_vars

\* The caller has moved out the two-point buffer the table was constructed
\* from, after setSkip and at() had been called on the table.
C12_Witness ==
    /\ ret.op = "acquire"
    /\ ~adopted.held
    /\ Len(adopted.buffer) = 2 * m_pointSize
    /\ acquired = <<adopted.buffer>>
    /\ acquired[1][1] # 0
    /\ m_data = << >>
    /\ marked # {}

\* C13: setNumPoints(s) leaves size() = s and changes nothing else: the
\* buffer (length and bytes), capacity() and every skip flag are as before,
\* whether s is below or above the previous size.
C13_SizeOnly ==
    [][ (ret'.op = "setNumPoints") =>
          \A s \in Counts :
              setNumPoints(s) =>
                  /\ size' = s
                  /\ m_data' = m_data
                  /\ capacity' = capacity
                  /\ m_skips' = m_skips ]_vars

\* setNumPoints has raised the size of a one-point table, whose point is
\* skipped and holds adopted bytes, above its capacity.
C13_Witness ==
    /\ ret.op = "setNumPoints"
    /\ size = 3
    /\ capacity = 1
    /\ m_data[1] # 0
    /\ m_skips = <<TRUE>>

(***************************************************************************)
(* Further properties of the arenas and the adapter table, under SpecArena.*)
(***************************************************************************)
\* A new arena of the parameters of s.
FreshLike(s) == MemBlock(s.m_pointSize, s.m_pointsPerBlock)

\* The arena s after one next() per address of ptrs, the allocator handing
\* out the blocks these addresses lie in.
RECURSIVE Replay(_, _)
Replay(s, ptrs) ==
    IF ptrs = << >> THEN s
    ELSE Replay(NextOf(s, Head(ptrs).blk).arena, Tail(ptrs))

\* C14: clear() resets an arena to its freshly constructed state (size() 0,
\* refs() empty, no blocks owned, cursor reset), and the next() calls after
\* it behave as on a new arena of the same parameters: the first allocates a
\* block and size() counts from 0.
C14_ClearResets ==
    [][ \A m \in Arenas :
          /\ clear(m) =>
                /\ mem'[m] = FreshLike(mem[m])
                /\ ArenaSize(mem'[m]) = 0
                /\ mem'[m].m_refs = << >>
                /\ mem'[m].m_blocks = << >>
                /\ mem'[m].m_pos = nullptr /\ mem'[m].m_end = nullptr
          /\ (cleared[m] /\ next(m)) =>
                /\ mem'[m] = Replay(FreshLike(mem[m]), issued'[m])
                /\ ArenaSize(mem'[m]) = Len(issued'[m])
                /\ issued[m] = << >> =>
                      /\ Len(mem'[m].m_blocks) = 1
                      /\ issued'[m] = << [blk |-> mem'[m].m_blocks[1].id, off |-> 0] >> ]_vars

\* An arena of two points per block that was cleared and has issued three
\* slots since.
C14_Witness ==
    \E m \in Arenas :
        /\ cleared[m]
        /\ mem[m].m_pointsPerBlock = 2
        /\ ArenaSize(mem[m]) = 3
        /\ Len(mem[m].m_blocks) = 2

\* C15: the index of a BlockPointTable is a snapshot taken at construction:
\* addPoint() on the table and next() (or clear()) on either arena leave
\* size() and getPoint(i), for every i < size(), as they were; slots issued
\* after the construction are not addressable through the table.
C15_Snapshot ==
    [][ (bpt.built /\ (addPoint \/ \E m \in Arenas : next(m) \/ clear(m))) =>
            /\ BptSize' = BptSize
            /\ \A i \in 0 .. (BptSize - 1) : BptGetPoint(i)' = BptGetPoint(i) ]_vars

\* A table built over two slots, and two more slots issued by arena "a"
\* since, after an addPoint().
C15_Witness ==
    /\ bpt.built
    /\ BptSize = 2
    /\ added # << >>
    /\ ArenaSize(mem["a"]) = 3
    /\ BptGetPoint(0) = mem["a"].m_refs[1]
    /\ BptGetPoint(1) # mem["a"].m_refs[2]
    /\ ~cleared["a"] /\ ~cleared["b"]

\* C16: the j-th addPoint() on a BlockPointTable returns j - 1, with no gap
\* and no repeat, and no capacity check is made: a call beyond size()
\* succeeds too and returns an index >= size().
C16_Sequential ==
    bpt.built =>
        /\ \A j \in 1 .. Len(added) : added[j] = j - 1
        /\ bpt.m_index < MaxAdd => ENABLED addPoint

\* Three addPoint() calls on a table of one slot.
C16_Witness ==
    /\ bpt.built
    /\ BptSize = 1
    /\ added = <<0, 1, 2>>

\* The owned blocks of s that wholly contain the slot [addr, addr + pointSize).
BlocksHolding(s, addr) ==
    { j \in 1 .. Len(s.m_blocks) :
          /\ s.m_blocks[j].id = addr.blk
          /\ 0 <= addr.off
          /\ addr.off + s.m_pointSize <= s.m_blocks[j].len }

\* The slots at p and q share a byte.
Overlap(s, p, q) ==
    /\ p.blk = q.blk
    /\ p.off < q.off + s.m_pointSize
    /\ q.off < p.off + s.m_pointSize

\* Every slot of refs() lies in exactly one owned block, and no two overlap.
SlotsSound(s) ==
    /\ \A i \in 1 .. Len(s.m_refs) : Cardinality(BlocksHolding(s, s.m_refs[i])) = 1
    /\ \A i, j \in 1 .. Len(s.m_refs) : i # j => ~Overlap(s, s.m_refs[i], s.m_refs[j])

\* C19: refs() holds exactly the addresses next() has returned since
\* construction or the last clear(), in issuance order; a next() appends one
\* entry and leaves the earlier ones as they were; and every issued slot lies
\* wholly inside exactly one owned block, no two slots overlapping.
C19_RefsAndSlots ==
    [][ \A m \in Arenas :
          /\ mem'[m].m_refs = issued'[m]
          /\ SlotsSound(mem'[m])
          /\ next(m) =>
                /\ Len(mem'[m].m_refs) = Len(mem[m].m_refs) + 1
                /\ SubSeq(mem'[m].m_refs, 1, Len(mem[m].m_refs)) = mem[m].m_refs
                /\ mem'[m].m_refs[Len(mem'[m].m_refs)] = issued'[m][Len(issued'[m])] ]_vars

\* An arena of two 2-byte points per block whose three slots fill one block
\* and begin a second.
C19_Witness ==
    \E m \in Arenas :
        /\ mem[m].m_pointSize = 2
        /\ mem[m].m_pointsPerBlock = 2
        /\ Len(mem[m].m_refs) = 3
        /\ mem[m].m_refs[2] = PtrAdd(mem[m].m_refs[1], 2)
        /\ mem[m].m_refs[3].blk # mem[m].m_refs[1].blk
        /\ mem[m].m_refs[3].off = 0

(***************************************************************************)
(* assign and the skip mask, under Spec.                                   *)
(***************************************************************************)
\* C20: assign(buffer) with a length that is a multiple of pointSize makes
\* the buffer the supplied bytes and size() = capacity() = length / pointSize,
\* and resizes the skip mask: skip(i) keeps its value for every i below both
\* the previous mask length and the new size, and the indices from the
\* previous mask length on start unskipped.
C20_AssignKeepsFlags ==
    [][ (ret'.op = "assign") =>
          LET data == m_data'
              n == Len(data) \div m_pointSize
              m == Len(m_skips)
          IN  (assign(data) /\ Len(data) % m_pointSize = 0) =>
                  /\ m_data' = data
                  /\ size' = n
                  /\ capacity' = n
                  /\ Len(m_skips') = n
                  /\ \A i \in 0 .. (Min(m, n) - 1) : SkipOf(i)' = SkipOf(i)
                  /\ \A i \in m .. (n - 1) : SkipOf(i)' = "false" ]_vars

\* A three-point buffer has been assigned to a table whose first point, and
\* no other, had been skipped: the flag is still set.
C20_Witness ==
    /\ ret.op = "assign"
    /\ size = 3
    /\ capacity = 3
    /\ m_data[1] # 0
    /\ m_skips = <<TRUE, FALSE, FALSE>>
    /\ marked = {0}

(***************************************************************************)
(* Whole traversals, under SpecLoop and SpecPostfix.                       *)
(***************************************************************************)
MaskFits == Len(m_skips) = size

\* The indices below n that are not skipped, in ascending order.
RECURSIVE UnskippedBelow(_)
UnskippedBelow(n) ==
    IF n = 0 THEN << >>
    ELSE IF SkipOf(n - 1) = "false" THEN Append(UnskippedBelow(n - 1), n - 1)
         ELSE UnskippedBelow(n - 1)

\* C17: on a table whose skip mask is as long as size() and which is left
\* alone meanwhile, the loop from begin() with ++it yields exactly the
\* indices of [0, size()) that are not skipped, once each and ascending, and
\* comes to an iterator equal to end() after at most size() advances.
C17_Traversal ==
    /\ [] ( (clean /\ MaskFits) =>
              /\ it.pc = "test" =>
                    /\ it.m_index <= size
                    /\ yielded = UnskippedBelow(it.m_index)
              /\ it.pc = "body" =>
                    /\ it.m_index < size
                    /\ yielded = UnskippedBelow(it.m_index + 1)
              /\ it.pc = "done" =>
                    /\ ~NotEqual(it, end)
                    /\ yielded = UnskippedBelow(size)
                    /\ Len(yielded) <= size )
    /\ ((it.pc = "test" /\ MaskFits) ~> (it.pc = "done"))

\* A finished traversal of three points, the first and the last skipped.
C17_Witness ==
    /\ it.pc = "done"
    /\ clean
    /\ size = 3
    /\ m_skips = <<TRUE, FALSE, TRUE>>
    /\ yielded = <<1>>

\* C18: ++it and it++ alike move the iterator they are applied to onto the
\* next index that is not skipped, or onto size(); so the loop that advances
\* with it++ until it equals end() terminates: every round leaves the
\* iterator on a higher index than the round before.
C18_AdvanceMoves ==
    [][ (ret'.op \in {"operator++", "operator++(int)"} /\ ret'.result = "ok") =>
            /\ it'.m_index = PreIncrement(it.m_index).m_index
            /\ it'.m_index > it.m_index ]_vars

====
